---- MODULE Spec2Model ----
(***************************************************************************)
(* A model of the GDG resource hub backend: the document store (users,     *)
(* departments, folders, resources), the object storage, the middleware    *)
(* gate (protect, restrictTo), the route tables and the controllers.       *)
(*                                                                         *)
(* The repository holds two resource controllers (the try/catch one of     *)
(* controllers/resourceController.js and the asyncHandler one), two        *)
(* department routers and two user routers (with and without the gate).    *)
(* Which of each a deployment mounts is fixed at start-up: cfg records it  *)
(* and Init leaves it open.                                                *)
(***************************************************************************)
EXTENDS Integers, Sequences, FiniteSets, TLC

VARIABLES
    cfg,          \* which variant of each duplicated source file is mounted
    users,        \* User collection: id -> document
    tokens,       \* bearer tokens issued so far: records [id, role]
    departments,  \* Department collection
    folders,      \* Folder collection
    resources,    \* Resource collection
    cloud,        \* object storage: the publicIds it holds
    nextObj,      \* number of objects ever uploaded (publicIds are never reused)
    reqs,         \* requests suspended at an await: slot -> request state
    resp          \* the response the last step sent (NoResp for a step that sent none)

store == <<users, departments, folders, resources, cloud, nextObj>>
vars == <<cfg, users, tokens, departments, folders, resources, cloud, nextObj, reqs, resp>>

(***************************************************************************)
(* Bounds and value sets                                                   *)
(***************************************************************************)
MaxCount == 1      \* views / downloads are counted up to this value
MaxObjects == 2    \* uploads the object storage accepts in one behaviour
MaxBatch == 2      \* files sent in one add-files request (the route allows 10)
MaxLive == 1       \* resources SpecResource creates
MaxBelow == 1      \* a folderCount is followed down to -MaxBelow

Nil == "nil"       \* null, or a field the request did not send as a value
Undef == "undef"   \* a body field that is undefined (not sent at all)

UserIds == {"u1", "u2"}
DeptIds == {"d1", "d2"}
FolderIds == {"f1", "f2"}
ResourceIds == {"r1", "r2"}
Slots == {"s1", "s2"}

\* ids in the order the store hands them out (an ObjectId is fresh: which
\* one a create gets does not matter, so the first unused one is taken)
UserOrder == <<"u1", "u2">>
DeptOrder == <<"d1", "d2">>
FolderOrder == <<"f1", "f2">>
ResourceOrder == <<"r1", "r2">>

StoredRoles == {"visitor", "member", "comanager"}
ResourceTypes == {"file", "link"}
FolderNames == {"A", "B"}
DeptNames == {"X", "Y"}
Emails == {"a@x", "b@x"}

\* the first id of order that doc does not hold yet, Nil when all are used
FirstFree(order, coll) ==
    LET free == {i \in 1..Len(order) : ~coll[order[i]].exists}
    IN IF free = {} THEN Nil
       ELSE order[CHOOSE i \in free : \A j \in free : i <= j]

SeqToSet(s) == {s[i] : i \in 1..Len(s)}

\* s without its element at position k
RemoveAt(s, k) == [i \in 1..(Len(s) - 1) |-> IF i < k THEN s[i] ELSE s[i + 1]]

RECURSIVE Without(_, _)
\* s without every occurrence of x (Array.prototype.filter)
Without(s, x) ==
    IF s = <<>> THEN <<>>
    ELSE IF Head(s) = x THEN Without(Tail(s), x)
         ELSE <<Head(s)>> \o Without(Tail(s), x)

\* position of the first occurrence of x in s, 0 when absent (findIndex + 1)
IndexOf(s, x) ==
    IF x \in SeqToSet(s) THEN CHOOSE i \in 1..Len(s) : s[i] = x /\ \A j \in 1..(i - 1) : s[j] # x
    ELSE 0

(***************************************************************************)
(* Documents                                                               *)
(***************************************************************************)
NoUser == [exists |-> FALSE, isActive |-> FALSE, role |-> Nil, email |-> Nil]

NoDepartment == [exists |-> FALSE, isActive |-> FALSE, name |-> Nil, folderCount |-> 0,
                 resourceCount |-> 0]

NoFolder == [exists |-> FALSE, isActive |-> FALSE, name |-> Nil, department |-> Nil,
             createdBy |-> Nil, resourceCount |-> 0]

NoResource == [exists |-> FALSE, isActive |-> FALSE, type |-> Nil, title |-> Nil,
               department |-> Nil, folder |-> Nil, uploadedBy |-> Nil, url |-> Nil,
               linkType |-> Nil, publicId |-> 0, views |-> 0, downloads |-> 0,
               favoritedBy |-> <<>>, files |-> <<>>]

\* the request context the middleware leaves in req.user (NoCtx: no middleware ran)
NoCtx == [auth |-> "nogate", actor |-> Nil, role |-> Nil, gated |-> FALSE]

NoResp == [op |-> "none", status |-> 0, auth |-> "nogate", actor |-> Nil, role |-> Nil,
           gated |-> FALSE, target |-> Nil, preExists |-> FALSE, preActive |-> FALSE, preOwner |-> Nil,
           changed |-> FALSE, list |-> {}, n |-> 0, flag |-> FALSE, key |-> <<>>]

IdleReq == [op |-> "idle", pc |-> "idle", ctx |-> NoCtx, id |-> Nil, name |-> Nil, was |-> Nil,
            department |-> Nil, createdBy |-> Nil, moveTo |-> Nil, n |-> 0]

\* a response of operation op with status st in context ctx about document doc
\* (of id target), after a step that changed the store iff ch
Answer(op, st, ctx, target, doc, owner, ch, list, n, flag) ==
    [op |-> op, status |-> st, auth |-> ctx.auth, actor |-> ctx.actor, role |-> ctx.role,
     gated |-> ctx.gated, target |-> target, preExists |-> doc.exists, preActive |-> doc.isActive,
     preOwner |-> owner, changed |-> ch, list |-> list, n |-> n, flag |-> flag, key |-> <<>>]

(***************************************************************************)
(* Middleware: protect, restrictTo                                         *)
(***************************************************************************)
NoToken == [kind |-> "none", id |-> Nil, role |-> Nil]
BadToken == [kind |-> "invalid", id |-> Nil, role |-> Nil]
Bearer(t) == [kind |-> "token", id |-> t.id, role |-> t.role]

\* a protect that takes the role from the account findById returns
ProtectStoredRole(cred) ==
    IF cred.kind = "none" THEN [auth |-> "none", actor |-> Nil, role |-> Nil, gated |-> TRUE]
    ELSE IF cred.kind = "invalid"
         THEN [auth |-> "invalid", actor |-> Nil, role |-> Nil, gated |-> TRUE]
    ELSE IF ~users[cred.id].exists
         THEN [auth |-> "orphan", actor |-> cred.id, role |-> cred.role, gated |-> TRUE]
    ELSE [auth |-> "ok", actor |-> cred.id, role |-> users[cred.id].role, gated |-> TRUE]

\* protect: who the credential of a request identifies. No token and a token
\* verifyToken rejects end 401; so does a token whose user findById does not
\* find. req.user carries the role of the token, not the stored one.
Protect(cred) ==
    IF cred.kind = "none" THEN [auth |-> "none", actor |-> Nil, role |-> Nil, gated |-> TRUE]
    ELSE IF cred.kind = "invalid"
         THEN [auth |-> "invalid", actor |-> Nil, role |-> Nil, gated |-> TRUE]
    ELSE IF ~users[cred.id].exists
         THEN [auth |-> "orphan", actor |-> cred.id, role |-> cred.role, gated |-> TRUE]
    ELSE [auth |-> "ok", actor |-> cred.id,
          role |-> IF cred.role # Nil THEN cred.role ELSE users[cred.id].role,
          gated |-> TRUE]

\* the status protect ends the request with, 0 when it calls next()
ProtectStatus(ctx) == IF ctx.auth = "ok" THEN 0 ELSE 401

\* a restrictTo that answers "not authenticated" for a role it refuses
RestrictToAs401(allowed, ctx) ==
    IF ctx.auth # "ok" \/ ctx.role \notin allowed THEN 401 ELSE 0

\* restrictTo(...allowed): 401 without req.user, 403 for a role outside allowed
RestrictTo(allowed, ctx) ==
    IF ctx.auth # "ok" THEN 401
    ELSE IF ctx.role \notin allowed THEN 403
    ELSE 0

\* a route's middleware chain: Open (no middleware), Authed (protect alone),
\* Only(allowed) (protect, then restrictTo(allowed))
Open == [protect |-> FALSE, restrict |-> FALSE, allowed |-> {}]
Authed == [protect |-> TRUE, restrict |-> FALSE, allowed |-> {}]
Only(allowed) == [protect |-> TRUE, restrict |-> TRUE, allowed |-> allowed]

\* what the controller of a route sees of the requester: on an open route no
\* middleware runs and req.user stays unset, whatever token the request carries
Ctx(chain, cred) ==
    IF chain.protect THEN Protect(cred) ELSE [Protect(cred) EXCEPT !.gated = FALSE]

\* middleware/errorHandler.js: the status a thrown error is answered with,
\* given the res.statusCode the thrower has set
ErrorHandler(statusCode) == IF statusCode # 200 THEN statusCode ELSE 500

\* the status the chain ends the request with, 0 when the controller is reached
GateStatus(chain, cred) ==
    IF ~chain.protect THEN 0
    ELSE IF ProtectStatus(Protect(cred)) # 0 THEN ErrorHandler(ProtectStatus(Protect(cred)))
    ELSE IF chain.restrict /\ RestrictTo(chain.allowed, Protect(cred)) # 0
         THEN ErrorHandler(RestrictTo(chain.allowed, Protect(cred)))
    ELSE 0

\* routes/resourceRoutes.js
ResourceRoute(op) ==
    CASE op \in {"getResources", "getResourceStats", "getResourceById", "trackDownload"} -> Open
      [] op \in {"createResource", "updateResource", "deleteResource",
                 "addFilesToResource", "removeFileFromResource"} -> Only({"member", "co-manager"})
      [] op = "adminDeleteResource" -> Only({"co-manager"})
      [] op = "toggleFavorite" -> Only({"visitor", "member", "co-manager"})

\* routes/folderRoutes.js
FolderRoute(op) ==
    CASE op \in {"getFolders", "getFoldersByDepartment", "getFolder", "getFolderResources"} -> Open
      [] op \in {"createFolder", "updateFolder", "deleteFolder"} -> Only({"co-manager"})
      [] op = "getFolderStats" -> Authed

\* routes/departmentRoutes.js, in its two versions
DepartmentRoute(op) ==
    IF cfg.departmentRoutes = "open" THEN Open
    ELSE CASE op = "getDepartments" -> Open
           [] op \in {"getDepartment", "getDepartmentStats"} -> Only({"visitor", "member", "co-manager"})
           [] op \in {"createDepartment", "updateDepartment", "deleteDepartment"} -> Only({"co-manager"})

\* routes/userRoutes.js, in its two versions
UserRoute(op) ==
    IF cfg.userRoutes = "open" THEN Open
    ELSE CASE op \in {"createUser", "getUsers", "updateUser", "updatePassword",
                      "deleteUser", "getUserStats"} -> Only({"co-manager"})
           [] op \in {"getUser", "getUserResources"} -> Authed

\* how a request reaches a controller: Direct is a call of the exported handler
\* itself, Via(chain, cred) a request through a route's middleware chain
Direct == [status |-> 0, ctx |-> NoCtx]
Via(chain, cred) == [status |-> GateStatus(chain, cred), ctx |-> Ctx(chain, cred)]

(***************************************************************************)
(* controllers/resourceController.js, in its two versions:                 *)
(* cfg.resourceCtl = "try" is the try/catch one, "async" the asyncHandler   *)
(* one. Each XxxOut is the handler as a function of the store: the status  *)
(* it answers and the collections it leaves. title stands for the content  *)
(* fields (title, description, tags, contributors), which no guard reads;  *)
(* publicId stands for the upload result (secure_url, public_id, format,   *)
(* bytes), and a sub-file is named by the publicId its upload got.         *)
(***************************************************************************)
ResOut(st, res, cl, no, list, n, flag) ==
    [st |-> st, res |-> res, cloud |-> cl, nextObj |-> no, list |-> list, n |-> n, flag |-> flag]

ResKeep(st) == ResOut(st, resources, cloud, nextObj, {}, 0, FALSE)

\* objects nextObj+1 .. nextObj+k, as the sequence of their publicIds
NewObjects(k) == [i \in 1..k |-> nextObj + i]

\* the document createResource hands to Resource.create
ResourceData(body, obj) ==
    [exists |-> TRUE, isActive |-> TRUE, type |-> body.type, title |-> body.title,
     department |-> body.department, folder |-> body.folder, uploadedBy |-> body.uploadedBy,
     url |-> IF body.type = "file" THEN "cdn" ELSE body.url,
     linkType |-> IF body.type = "link"
                  THEN (IF body.linkType # Nil THEN body.linkType ELSE "other")
                  ELSE Nil,
     publicId |-> IF body.type = "file" THEN obj ELSE 0,
     views |-> 0, downloads |-> 0, favoritedBy |-> <<>>, files |-> <<>>]

CreateResourceOut(rid, body, hasFile, upOk) ==
    IF body.title = Nil \/ body.type = Nil \/ body.department = Nil THEN ResKeep(400)
    ELSE IF body.type = "file" /\ ~hasFile THEN ResKeep(400)
    ELSE IF body.type = "file" /\ ~upOk THEN ResKeep(500)
    ELSE IF body.type = "link" /\ body.url = Nil THEN ResKeep(400)
    ELSE IF body.type \notin ResourceTypes THEN ResKeep(500)
    ELSE IF body.type = "file"
         THEN ResOut(201, [resources EXCEPT ![rid] = ResourceData(body, nextObj + 1)],
                     cloud \cup {nextObj + 1}, nextObj + 1, {}, 0, FALSE)
    ELSE ResOut(201, [resources EXCEPT ![rid] = ResourceData(body, 0)],
                cloud, nextObj, {}, 0, FALSE)

\* the resources a list query answers: the try/catch controller always asks
\* for isActive: true, the asyncHandler one defaults the isActive parameter to
\* true and lets the query string override it
GetResourcesOut(isActiveParam) ==
    LET wantActive == IF cfg.resourceCtl = "try" THEN TRUE
                      ELSE (isActiveParam = Undef \/ isActiveParam = "true")
    IN ResOut(200, resources, cloud, nextObj,
              {r \in ResourceIds : resources[r].exists /\ resources[r].isActive = wantActive},
              0, FALSE) @@ [key |-> <<isActiveParam>>]

GetResourceByIdOut(rid) ==
    LET r == resources[rid]
    IN IF ~r.exists \/ ~r.isActive THEN ResKeep(404)
       ELSE ResOut(200, [resources EXCEPT ![rid].views = r.views + 1], cloud, nextObj,
                   {rid}, 0, FALSE)

\* does updateResource / deleteResource / add-files / remove-file find rid:
\* the asyncHandler controller asks only whether the document exists
Found(r) == r.exists /\ (cfg.resourceCtl = "async" \/ r.isActive)

\* an update block that takes isActive from the body as well
Reactivated(r, body) == [r EXCEPT !.isActive = TRUE]

\* an update block that takes type from the body as well
TypeTaken(r, body) ==
    [r EXCEPT !.type = IF body.type # Undef THEN body.type ELSE @,
              !.title = IF body.title # Undef THEN body.title ELSE @]

\* the "update other fields" block of updateResource: type is not among the
\* fields the handler takes from the body
UpdatedFields(r, body) ==
    [r EXCEPT
       !.title = IF body.title # Undef THEN body.title ELSE @,
       !.url = IF body.url # Undef /\ r.type = "link" THEN body.url ELSE @,
       !.linkType = IF body.linkType # Undef /\ (cfg.resourceCtl = "try" \/ r.type = "link")
                    THEN body.linkType ELSE @,
       !.folder = IF body.folder # Undef THEN body.folder ELSE @,
       !.department = IF cfg.resourceCtl = "async" /\ body.department # Undef
                      THEN body.department ELSE @]

\* what a PUT /resources/:id carried, for the response record: a file or
\* not, the outcome of the destroy and of the upload, the type field sent
UpdateSent(body, hasFile, destroyOk, upOk) ==
    <<IF hasFile THEN "file" ELSE "nofile",
      IF destroyOk THEN "destroyed" ELSE "destroyFails",
      IF upOk THEN "uploaded" ELSE "uploadFails",
      body.type>>

\* the destroy of the old object and the upload of the new one are awaited
\* inside the handler's try (or under asyncHandler): a rejection of either
\* ends the request with 500 before anything is saved
UpdateResourceOut(rid, body, hasFile, destroyOk, upOk) ==
    LET r == resources[rid]
        replace == hasFile /\ r.type = "file"
    IN (IF ~Found(r) THEN ResKeep(404)
        ELSE IF replace /\ r.publicId # 0 /\ ~destroyOk THEN ResKeep(500)
        ELSE IF replace /\ ~upOk
             THEN ResOut(500, resources, cloud \ {r.publicId}, nextObj, {}, 0, FALSE)
        ELSE IF replace
             THEN ResOut(200,
                         [resources EXCEPT ![rid] =
                             UpdatedFields([r EXCEPT !.publicId = nextObj + 1], body)],
                         (cloud \ {r.publicId}) \cup {nextObj + 1}, nextObj + 1, {}, 0, FALSE)
        ELSE ResOut(200, [resources EXCEPT ![rid] = UpdatedFields(r, body)],
                    cloud, nextObj, {}, 0, FALSE))
       @@ [key |-> UpdateSent(body, hasFile, destroyOk, upOk)]

DeleteResourceOut(rid) ==
    IF ~Found(resources[rid]) THEN ResKeep(404)
    ELSE ResOut(200, [resources EXCEPT ![rid].isActive = FALSE], cloud, nextObj, {}, 0, FALSE)

\* the try/catch controller increments with findByIdAndUpdate($inc), whatever
\* isActive is; the asyncHandler one loads, tests isActive, adds one and saves
TrackDownloadOut(rid) ==
    LET r == resources[rid]
        hit == IF cfg.resourceCtl = "try" THEN r.exists ELSE r.exists /\ r.isActive
    IN IF ~hit THEN ResKeep(404)
       ELSE ResOut(200, [resources EXCEPT ![rid].downloads = r.downloads + 1], cloud, nextObj,
                   {}, r.downloads + 1, FALSE)

\* favoritedBy after a toggle of userId: the try/catch controller splices the
\* first occurrence out, the asyncHandler one filters every occurrence out
Toggled(favs, userId) ==
    IF IndexOf(favs, userId) = 0 THEN Append(favs, userId)
    ELSE IF cfg.resourceCtl = "try" THEN RemoveAt(favs, IndexOf(favs, userId))
    ELSE Without(favs, userId)

ToggleFavoriteOut(rid, userId) ==
    LET r == resources[rid]
    IN IF userId = Nil THEN ResKeep(400)
       ELSE IF ~r.exists \/ ~r.isActive THEN ResKeep(404)
       ELSE ResOut(200, [resources EXCEPT ![rid].favoritedBy = Toggled(r.favoritedBy, userId)],
                   cloud, nextObj, {}, Len(Toggled(r.favoritedBy, userId)),
                   IndexOf(r.favoritedBy, userId) = 0)

\* k files are sent and nOk of their uploads succeed; Promise.all rejects when
\* one fails, and the objects already uploaded stay in the object storage
\* an add-files that attaches the uploads that succeeded
AddFilesPartial(rid, k, nOk) ==
    ResOut(IF nOk < k THEN 500 ELSE 200,
           [resources EXCEPT ![rid].files = resources[rid].files \o NewObjects(nOk)],
           cloud \cup SeqToSet(NewObjects(nOk)), nextObj + nOk, {}, nOk, FALSE)
        @@ [key |-> <<k, nOk>>]

AddFilesOut(rid, k, nOk) ==
    LET r == resources[rid]
        miss == IF cfg.resourceCtl = "try" THEN (~r.exists \/ ~r.isActive) ELSE ~r.exists
    IN (IF cfg.resourceCtl = "try" /\ miss THEN ResKeep(404)
        ELSE IF k = 0 THEN ResKeep(400)
        ELSE IF miss THEN ResKeep(404)
        ELSE IF nOk < k
             THEN ResOut(500, resources, cloud \cup SeqToSet(NewObjects(nOk)), nextObj + nOk,
                         {}, 0, FALSE)
        ELSE ResOut(200, [resources EXCEPT ![rid].files = r.files \o NewObjects(k)],
                    cloud \cup SeqToSet(NewObjects(k)), nextObj + k, {}, k, FALSE))
       @@ [key |-> <<k, nOk>>]

\* fileId names a sub-file by its _id or by its publicId: the try/catch
\* controller matches either, the asyncHandler one (files.id) the _id alone
FileMatches(fileId) ==
    cfg.resourceCtl = "try" \/ fileId.by = "_id"

\* a remove-file that answers 200 for an id the list does not hold
RemoveFileSilent(rid, fileId, destroyOk) ==
    ResOut(200, [resources EXCEPT ![rid].files = Without(resources[rid].files, fileId.k)],
           cloud \ {fileId.k}, nextObj, {}, 0, FALSE)
        @@ [key |-> <<fileId.by, fileId.k>>]

RemoveFileOut(rid, fileId, destroyOk) ==
    LET r == resources[rid]
        has == FileMatches(fileId) /\ fileId.k \in SeqToSet(r.files)
    IN (IF ~Found(r) THEN ResKeep(404)
        ELSE IF ~has THEN ResKeep(404)
        ELSE IF ~destroyOk THEN ResKeep(500)
        ELSE ResOut(200, [resources EXCEPT ![rid].files = Without(r.files, fileId.k)],
                    cloud \ {fileId.k}, nextObj, {}, 0, FALSE))
       @@ [key |-> <<fileId.by, fileId.k>>]

\* a step of the resource controller reached through g: the chain's denial,
\* or the handler's outcome out
ResourceStep(op, g, rid, out) ==
    LET doc == IF rid \in ResourceIds THEN resources[rid] ELSE NoResource
        o == IF g.status # 0 THEN ResKeep(g.status) ELSE out
    IN /\ resources' = o.res
       /\ cloud' = o.cloud
       /\ nextObj' = o.nextObj
       /\ UNCHANGED <<cfg, users, tokens, departments, folders, reqs>>
       /\ resp' = [Answer(op, o.st, g.ctx, rid, doc, doc.uploadedBy, store' # store,
                          o.list, o.n, o.flag)
                      EXCEPT !.key = IF "key" \in DOMAIN o THEN o.key ELSE <<>>]

CreateResource(g, body, hasFile, upOk) ==
    /\ FirstFree(ResourceOrder, resources) # Nil
    /\ nextObj < MaxObjects
    /\ ResourceStep("createResource", g, Nil,
                    CreateResourceOut(FirstFree(ResourceOrder, resources), body, hasFile, upOk))

GetResources(g, isActiveParam) ==
    ResourceStep("getResources", g, Nil, GetResourcesOut(isActiveParam))

GetResourceById(g, rid) ==
    /\ resources[rid].views < MaxCount
    /\ ResourceStep("getResourceById", g, rid, GetResourceByIdOut(rid))

UpdateResource(g, rid, body, hasFile, destroyOk, upOk) ==
    /\ hasFile => nextObj < MaxObjects
    /\ ResourceStep("updateResource", g, rid, UpdateResourceOut(rid, body, hasFile, destroyOk, upOk))

DeleteResource(g, rid) ==
    ResourceStep("deleteResource", g, rid, DeleteResourceOut(rid))

TrackDownload(g, rid) ==
    /\ resources[rid].downloads < MaxCount
    /\ ResourceStep("trackDownload", g, rid, TrackDownloadOut(rid))

ToggleFavorite(g, rid, userId) ==
    ResourceStep("toggleFavorite", g, rid, ToggleFavoriteOut(rid, userId))

AddFilesToResource(g, rid, k, nOk) ==
    /\ nextObj + k <= MaxObjects
    /\ ResourceStep("addFilesToResource", g, rid, AddFilesOut(rid, k, nOk))

RemoveFileFromResource(g, rid, fileId, destroyOk) ==
    ResourceStep("removeFileFromResource", g, rid, RemoveFileOut(rid, fileId, destroyOk))

(***************************************************************************)
(* The department controller. Every handler is one try block around        *)
(* awaits on one document; name stands for (name, slug), which the schema   *)
(* derives from each other and indexes unique.                             *)
(***************************************************************************)
DeptOut(st, deps, list, n) == [st |-> st, deps |-> deps, list |-> list, n |-> n]

DeptKeep(st) == DeptOut(st, departments, {}, 0)

NameTaken(name, except) ==
    \E d \in DeptIds \ {except} : departments[d].exists /\ departments[d].name = name

CreateDepartmentOut(did, name) ==
    IF name = Nil THEN DeptKeep(400)
    ELSE IF NameTaken(name, Nil) THEN DeptKeep(400)
    ELSE DeptOut(201, [departments EXCEPT ![did] =
                          [exists |-> TRUE, isActive |-> TRUE, name |-> name,
                           folderCount |-> 0, resourceCount |-> 0]], {}, 0)

\* getDepartments filters on isActive only when the query string carries it
GetDepartmentsOut(isActiveParam) ==
    DeptOut(200, departments,
            {d \in DeptIds : /\ departments[d].exists
                             /\ (isActiveParam # Undef =>
                                   departments[d].isActive = (isActiveParam = "true"))},
            0) @@ [key |-> <<isActiveParam>>]

\* a count that looks at active resources only
ActiveResourcesOfDepartment(did) ==
    Cardinality({r \in ResourceIds :
                   resources[r].exists /\ resources[r].isActive /\ resources[r].department = did})

\* Resource.countDocuments({ department: id }): inactive resources count too
ResourcesOfDepartment(did) ==
    Cardinality({r \in ResourceIds : resources[r].exists /\ resources[r].department = did})

GetDepartmentOut(did) ==
    LET d == departments[did]
    IN IF ~d.exists \/ ~d.isActive THEN DeptKeep(404)
       ELSE DeptOut(200, [departments EXCEPT ![did].resourceCount = ResourcesOfDepartment(did)],
                    {did}, ResourcesOfDepartment(did))

\* a rename to a name another department holds fails at save (unique index)
UpdateDepartmentOut(did, name) ==
    LET d == departments[did]
    IN IF ~d.exists THEN DeptKeep(404)
       ELSE IF name # Undef /\ NameTaken(name, did) THEN DeptKeep(500)
       ELSE DeptOut(200, [departments EXCEPT ![did].name = IF name # Undef THEN name ELSE @],
                    {}, 0)

DeleteDepartmentOut(did) ==
    LET d == departments[did]
    IN IF ~d.exists THEN DeptKeep(404)
       ELSE IF ResourcesOfDepartment(did) > 0 THEN DeptOut(400, departments, {}, ResourcesOfDepartment(did))
       ELSE DeptOut(200, [departments EXCEPT ![did].isActive = FALSE], {}, 0)

DepartmentStep(op, g, did, out) ==
    LET doc == IF did \in DeptIds THEN departments[did] ELSE NoDepartment
        o == IF g.status # 0 THEN DeptKeep(g.status) ELSE out
    IN /\ departments' = o.deps
       /\ UNCHANGED <<cfg, users, tokens, folders, resources, cloud, nextObj, reqs>>
       /\ resp' = [Answer(op, o.st, g.ctx, did, doc, Nil, store' # store, o.list, o.n, FALSE)
                      EXCEPT !.key = IF "key" \in DOMAIN o THEN o.key ELSE <<>>]

CreateDepartment(g, name) ==
    /\ FirstFree(DeptOrder, departments) # Nil
    /\ DepartmentStep("createDepartment", g, Nil,
                      CreateDepartmentOut(FirstFree(DeptOrder, departments), name))

GetDepartments(g, isActiveParam) ==
    DepartmentStep("getDepartments", g, Nil, GetDepartmentsOut(isActiveParam))

GetDepartment(g, did) ==
    DepartmentStep("getDepartment", g, did, GetDepartmentOut(did))

UpdateDepartment(g, did, name) ==
    DepartmentStep("updateDepartment", g, did, UpdateDepartmentOut(did, name))

DeleteDepartment(g, did) ==
    DepartmentStep("deleteDepartment", g, did, DeleteDepartmentOut(did))

(***************************************************************************)
(* The user controller and the auth controller. The password check of      *)
(* login is the input pwOk; a token is the pair (id, role) generateToken    *)
(* signs, and tokens holds every token issued (none expires within a run). *)
(***************************************************************************)
UserOut(st, us, toks, list) == [st |-> st, users |-> us, tokens |-> toks, list |-> list]

UserKeep(st) == UserOut(st, users, tokens, {})

EmailTaken(email) == \E u \in UserIds : users[u].exists /\ users[u].email = email

UserByEmail(email) == CHOOSE u \in UserIds : users[u].exists /\ users[u].email = email

\* role || "member", then the schema's enum at save
CreateUserOut(uid, email, role) ==
    IF EmailTaken(email) THEN UserKeep(400)
    ELSE IF role # Undef /\ role \notin StoredRoles THEN UserKeep(500)
    ELSE UserOut(201, [users EXCEPT ![uid] =
                          [exists |-> TRUE, isActive |-> TRUE, email |-> email,
                           role |-> IF role # Undef THEN role ELSE "member"]],
                 tokens, {})

GetUsersOut(isActiveParam) ==
    UserOut(200, users, tokens,
            {u \in UserIds : /\ users[u].exists
                             /\ users[u].isActive = (isActiveParam \in {Undef, "true"})})
        @@ [key |-> <<isActiveParam>>]

GetUserOut(uid) ==
    IF ~users[uid].exists \/ ~users[uid].isActive THEN UserKeep(404)
    ELSE UserOut(200, users, tokens, {uid})

UpdateUserOut(uid, role) ==
    IF ~users[uid].exists THEN UserKeep(404)
    ELSE IF role # Undef /\ role \notin StoredRoles THEN UserKeep(500)
    ELSE UserOut(200, [users EXCEPT ![uid].role = IF role # Undef THEN role ELSE @], tokens, {})

DeleteUserOut(uid) ==
    IF ~users[uid].exists THEN UserKeep(404)
    ELSE UserOut(200, [users EXCEPT ![uid].isActive = FALSE], tokens, {})

\* authController.register: the account is a visitor and gets its token
RegisterOut(uid, email) ==
    IF EmailTaken(email) THEN UserKeep(400)
    ELSE UserOut(201, [users EXCEPT ![uid] =
                          [exists |-> TRUE, isActive |-> TRUE, email |-> email,
                           role |-> "visitor"]],
                 tokens \cup {[id |-> uid, role |-> "visitor"]}, {})

\* authController.login: isActive is not looked at
LoginOut(email, pwOk) ==
    IF ~EmailTaken(email) \/ ~pwOk THEN UserKeep(401)
    ELSE UserOut(200, users,
                 tokens \cup {[id |-> UserByEmail(email), role |-> users[UserByEmail(email)].role]},
                 {})

\* the inline test of the gated GET /users/:id and GET /users/:id/resources
OwnOrCoManager(g, uid) ==
    IF g.status = 0 /\ g.ctx.gated /\ g.ctx.role # "co-manager" /\ g.ctx.actor # uid
    THEN [g EXCEPT !.status = 403]
    ELSE g

UserStep(op, g, uid, out) ==
    LET doc == IF uid \in UserIds THEN users[uid] ELSE NoUser
        o == IF g.status # 0 THEN UserKeep(g.status) ELSE out
    IN /\ users' = o.users
       /\ tokens' = o.tokens
       /\ UNCHANGED <<cfg, departments, folders, resources, cloud, nextObj, reqs>>
       /\ resp' = [Answer(op, o.st, g.ctx, uid, doc, uid, store' # store, o.list, 0, FALSE)
                      EXCEPT !.key = IF "key" \in DOMAIN o THEN o.key ELSE <<>>]

CreateUser(g, email, role) ==
    /\ FirstFree(UserOrder, users) # Nil
    /\ UserStep("createUser", g, Nil, CreateUserOut(FirstFree(UserOrder, users), email, role))

GetUsers(g, isActiveParam) == UserStep("getUsers", g, Nil, GetUsersOut(isActiveParam))

GetUser(g, uid) == UserStep("getUser", OwnOrCoManager(g, uid), uid, GetUserOut(uid))

UpdateUser(g, uid, role) == UserStep("updateUser", g, uid, UpdateUserOut(uid, role))

DeleteUser(g, uid) == UserStep("deleteUser", g, uid, DeleteUserOut(uid))

Register(email) ==
    /\ FirstFree(UserOrder, users) # Nil
    /\ UserStep("register", Direct, Nil, RegisterOut(FirstFree(UserOrder, users), email))

Login(email, pwOk) == UserStep("login", Direct, Nil, LoginOut(email, pwOk))

(***************************************************************************)
(* The folder controller. createFolder and updateFolder read, then write,  *)
(* with awaits in between: a request in flight sits in a slot of reqs with *)
(* what it has read so far, and other requests run between its steps.      *)
(***************************************************************************)
FolderStep(op, st, ctx, fid, key, fo, deps, res, rq, list, n) ==
    LET doc == IF fid \in FolderIds THEN folders[fid] ELSE NoFolder
    IN /\ folders' = fo
       /\ departments' = deps
       /\ resources' = res
       /\ reqs' = rq
       /\ UNCHANGED <<cfg, users, tokens, cloud, nextObj>>
       /\ resp' = [Answer(op, st, ctx, fid, doc, doc.createdBy, store' # store, list, n, FALSE)
                   EXCEPT !.key = key]

\* Folder.findOne({ name, department, isActive: true, _id: { $ne: except } })
ActiveFolderNamed(name, department, except) ==
    \E f \in FolderIds \ {except} :
        /\ folders[f].exists /\ folders[f].isActive
        /\ folders[f].name = name /\ folders[f].department = department

\* the Folder collection without its unique index
NoFolderIndex(name, department, except) == FALSE

\* the unique index on { name, department }: it ranges over every folder
\* document, active or not
FolderIndexHolds(name, department, except) ==
    \E f \in FolderIds \ {except} :
        /\ folders[f].exists
        /\ folders[f].name = name /\ folders[f].department = department

\* createFolder up to Folder.create: validation, Department.findById, the
\* findOne for an active folder of that name
CreateFolderStatus(name, department) ==
    IF name = Nil \/ department = Nil THEN 400
    ELSE IF ~departments[department].exists THEN 404
    ELSE IF ActiveFolderNamed(name, department, Nil) THEN 400
    ELSE 0

CreateFolderCheck(g, s, name, department, createdBy) ==
    LET st == IF g.status # 0 THEN g.status ELSE CreateFolderStatus(name, department)
    IN /\ reqs[s].pc = "idle"
       /\ FolderStep("createFolder", st, g.ctx, Nil, <<name, department>>, folders, departments, resources,
                     IF st # 0 THEN reqs
                     ELSE [reqs EXCEPT ![s] = [IdleReq EXCEPT !.op = "createFolder", !.pc = "create",
                                                            !.ctx = g.ctx, !.name = name,
                                                            !.department = department,
                                                            !.createdBy = createdBy]],
                     {}, 0)

\* Folder.create: the insert fails on the unique index and the catch answers 500
CreateFolderInsert(s) ==
    LET r == reqs[s]
        fid == FirstFree(FolderOrder, folders)
    IN /\ r.pc = "create"
       /\ fid # Nil
       /\ IF FolderIndexHolds(r.name, r.department, Nil)
          THEN FolderStep("createFolder", 500, r.ctx, Nil, <<r.name, r.department>>, folders, departments, resources,
                          [reqs EXCEPT ![s] = IdleReq], {}, 0)
          ELSE FolderStep("createFolder", 0, r.ctx, Nil, <<r.name, r.department>>,
                          [folders EXCEPT ![fid] =
                              [exists |-> TRUE, isActive |-> TRUE, name |-> r.name,
                               department |-> r.department, createdBy |-> r.createdBy,
                               resourceCount |-> 0]],
                          departments, resources,
                          [reqs EXCEPT ![s].pc = "count", ![s].id = fid], {}, 0)

\* Department.findByIdAndUpdate($inc folderCount), then the 201
CreateFolderCount(s) ==
    LET r == reqs[s]
    IN /\ r.pc = "count"
       /\ FolderStep("createFolder", 201, r.ctx, r.id, <<r.name, r.department>>, folders,
                     [departments EXCEPT ![r.department].folderCount = @ + 1], resources,
                     [reqs EXCEPT ![s] = IdleReq], {r.id}, 0)

GetFoldersOut(isActiveParam) ==
    {f \in FolderIds : folders[f].exists /\ folders[f].isActive = (isActiveParam \in {Undef, "true"})}

GetFolders(g, isActiveParam) ==
    FolderStep("getFolders", IF g.status # 0 THEN g.status ELSE 200, g.ctx, Nil,
               <<isActiveParam>>, folders,
               departments, resources, reqs,
               IF g.status # 0 THEN {} ELSE GetFoldersOut(isActiveParam), 0)

\* Resource.countDocuments({ folder: id, isActive: true })
ActiveResourcesIn(fid) ==
    {r \in ResourceIds : resources[r].exists /\ resources[r].isActive /\ resources[r].folder = fid}

GetFolder(g, fid) ==
    LET f == folders[fid]
        st == IF g.status # 0 THEN g.status
              ELSE IF ~f.exists \/ ~f.isActive THEN 404 ELSE 200
    IN FolderStep("getFolder", st, g.ctx, fid, <<>>,
                  IF st = 200
                  THEN [folders EXCEPT ![fid].resourceCount = Cardinality(ActiveResourcesIn(fid))]
                  ELSE folders,
                  departments, resources, reqs, IF st = 200 THEN {fid} ELSE {}, 0)

\* updateFolder up to folder.save(): findById, then the findOne when the name changes
UpdateFolderStatus(fid, name) ==
    LET f == folders[fid]
    IN IF ~f.exists \/ ~f.isActive THEN 404
       ELSE IF name # Undef /\ name # f.name /\ ActiveFolderNamed(name, f.department, fid) THEN 400
       ELSE 0

UpdateFolderCheck(g, s, fid, name) ==
    LET st == IF g.status # 0 THEN g.status ELSE UpdateFolderStatus(fid, name)
    IN /\ reqs[s].pc = "idle"
       /\ FolderStep("updateFolder", st, g.ctx, fid, <<name>>, folders, departments, resources,
                     IF st # 0 THEN reqs
                     ELSE [reqs EXCEPT ![s] = [IdleReq EXCEPT !.op = "updateFolder", !.pc = "save",
                                                            !.ctx = g.ctx, !.id = fid, !.name = name,
                                                            !.was = folders[fid].name]],
                     {}, 0)

\* folder.save() writes the paths the handler modified on the document it
\* loaded: the name, when it differs from the loaded one
UpdateFolderSave(s) ==
    LET r == reqs[s]
        modified == r.name # Undef /\ r.name # r.was
    IN /\ r.pc = "save"
       /\ IF modified /\ FolderIndexHolds(r.name, folders[r.id].department, r.id)
          THEN FolderStep("updateFolder", 500, r.ctx, r.id, <<r.name>>, folders, departments, resources,
                          [reqs EXCEPT ![s] = IdleReq], {}, 0)
          ELSE FolderStep("updateFolder", 200, r.ctx, r.id, <<r.name>>,
                          IF modified THEN [folders EXCEPT ![r.id].name = r.name] ELSE folders,
                          departments, resources, [reqs EXCEPT ![s] = IdleReq], {r.id}, 0)

\* a deleteFolder that goes on without a target whatever the count is
DeleteFolderUnguarded(fid, moveTo) ==
    IF ~folders[fid].exists THEN 404
    ELSE IF ActiveResourcesIn(fid) = {} \/ moveTo = Nil THEN 200
    ELSE IF ~folders[moveTo].exists \/ ~folders[moveTo].isActive THEN 404
    ELSE 200

\* deleteFolder asks only whether the document exists
DeleteFolderStatus(fid, moveTo) ==
    IF ~folders[fid].exists THEN 404
    ELSE IF ActiveResourcesIn(fid) = {} THEN 200
    ELSE IF moveTo = Nil THEN 400
    ELSE IF ~folders[moveTo].exists \/ ~folders[moveTo].isActive THEN 404
    ELSE 200

DeleteFolder(g, fid, moveTo) ==
    LET st == IF g.status # 0 THEN g.status ELSE DeleteFolderStatus(fid, moveTo)
        moved == IF st = 200 THEN ActiveResourcesIn(fid) ELSE {}
        n == Cardinality(ActiveResourcesIn(fid))
        fo1 == IF moved # {} THEN [folders EXCEPT ![moveTo].resourceCount = @ + n] ELSE folders
    IN /\ folders[fid].exists => departments[folders[fid].department].folderCount > -MaxBelow
       /\ moveTo # Nil => folders[moveTo].resourceCount + n <= MaxCount
       /\ FolderStep("deleteFolder", st, g.ctx, fid, <<>>,
                     IF st = 200 THEN [fo1 EXCEPT ![fid].isActive = FALSE] ELSE folders,
                     IF st = 200
                     THEN [departments EXCEPT ![folders[fid].department].folderCount = @ - 1]
                     ELSE departments,
                     [r \in ResourceIds |->
                        IF r \in moved THEN [resources[r] EXCEPT !.folder = moveTo] ELSE resources[r]],
                     reqs, {}, n)

(***************************************************************************)
(* Start-up: an empty database and object storage, no request in flight.   *)
(***************************************************************************)
Configs == [resourceCtl : {"try", "async"}, departmentRoutes : {"open", "gated"},
            userRoutes : {"open", "gated"}]

Init ==
    /\ cfg \in Configs
    /\ users = [u \in UserIds |-> NoUser]
    /\ tokens = {}
    /\ departments = [d \in DeptIds |-> NoDepartment]
    /\ folders = [f \in FolderIds |-> NoFolder]
    /\ resources = [r \in ResourceIds |-> NoResource]
    /\ cloud = {}
    /\ nextObj = 0
    /\ reqs = [s \in Slots |-> IdleReq]
    /\ resp = NoResp

(***************************************************************************)
(* SpecFolder: the folder controller's handlers called on a store that     *)
(* createDepartment fills, two requests at a time. No route is involved,    *)
(* and no resource handler: cfg is not read.                               *)
(***************************************************************************)
InitFolder ==
    /\ Init
    /\ cfg = [resourceCtl |-> "try", departmentRoutes |-> "gated", userRoutes |-> "gated"]

NextFolder ==
    \/ \E name \in DeptNames : CreateDepartment(Direct, name)
    \/ \E s \in Slots, name \in FolderNames \cup {Nil}, d \in DeptIds, u \in {"u1"} :
          CreateFolderCheck(Direct, s, name, d, u)
    \/ \E s \in Slots : CreateFolderInsert(s)
    \/ \E s \in Slots : CreateFolderCount(s)
    \/ \E s \in Slots, f \in FolderIds, name \in FolderNames \cup {Undef} :
          UpdateFolderCheck(Direct, s, f, name)
    \/ \E s \in Slots : UpdateFolderSave(s)
    \/ \E f \in FolderIds : DeleteFolder(Direct, f, Nil)
    \/ \E p \in {Undef, "false"} : GetFolders(Direct, p)
    \/ \E f \in FolderIds : GetFolder(Direct, f)

SpecFolder == InitFolder /\ [][NextFolder]_vars

TwoActiveAlike ==
    \E f1, f2 \in FolderIds :
        /\ f1 # f2
        /\ folders[f1].exists /\ folders[f1].isActive
        /\ folders[f2].exists /\ folders[f2].isActive
        /\ folders[f1].name = folders[f2].name
        /\ folders[f1].department = folders[f2].department

\* C9: in every reachable state, requests interleaved at their awaits
\* included, no two active folders have the same (name, department); and a
\* createFolder or updateFolder that answers an error has changed nothing
C9_ActiveFoldersUnique ==
    /\ ~TwoActiveAlike
    /\ (resp.op \in {"createFolder", "updateFolder"} /\ resp.status \in {400, 404, 500})
          => ~resp.changed

\* C9's case: a createFolder that passed its findOne while another request
\* was between its own findOne and its insert, and then failed at the insert
\* (no folder was ever deleted: the duplicate it met is active)
C9_Witness ==
    /\ resp.op = "createFolder" /\ resp.status = 500
    /\ \A f \in FolderIds : folders[f].exists => folders[f].isActive
    /\ \E f \in FolderIds : folders[f].exists /\ resp.key = <<folders[f].name, folders[f].department>>

\* C10: a createFolder for (N, D) is not refused while no active folder has
\* (N, D) and a soft-deleted one does: the deleted folder does not block its
\* name
C10_DeletedNameIsFree ==
    ~ /\ resp.op = "createFolder"
      /\ resp.status \notin {0, 201}
      /\ Len(resp.key) = 2
      /\ ~ActiveFolderNamed(resp.key[1], resp.key[2], Nil)
      /\ \E f \in FolderIds :
            /\ folders[f].exists /\ ~folders[f].isActive
            /\ folders[f].name = resp.key[1] /\ folders[f].department = resp.key[2]

(***************************************************************************)
(* SpecResource: the resource controller's handlers called one at a time,  *)
(* in either version of the controller. No route is involved.              *)
(***************************************************************************)
InitResource ==
    /\ Init
    /\ cfg.departmentRoutes = "gated" /\ cfg.userRoutes = "gated"

\* request bodies of POST /resources: a file, a link, a link without its url
FileBody == [type |-> "file", title |-> "t", department |-> "d1", folder |-> Nil,
             uploadedBy |-> "u1", url |-> Nil, linkType |-> Nil]

CreateBodies ==
    {FileBody, [FileBody EXCEPT !.type = "link", !.url = "x"], [FileBody EXCEPT !.type = "link"]}

\* request bodies of PUT /resources/:id: nothing, a new title, a type
NoChange == [title |-> Undef, url |-> Undef, linkType |-> Undef, folder |-> Undef,
             department |-> Undef, type |-> Undef]

UpdateBodies ==
    {NoChange, [NoChange EXCEPT !.title = "t2"]} \cup {[NoChange EXCEPT !.type = t] : t \in ResourceTypes}

FileRefs == [by : {"_id", "publicId"}, k : 1..MaxObjects]

NextResource ==
    \/ \E b \in CreateBodies, hasFile, upOk \in BOOLEAN :
          /\ Cardinality({r \in ResourceIds : resources[r].exists}) < MaxLive
          /\ CreateResource(Direct, b, hasFile, upOk)
    \/ \E p \in {Undef, "false"} : GetResources(Direct, p)
    \/ \E r \in ResourceIds : GetResourceById(Direct, r)
    \/ \E r \in ResourceIds, b \in UpdateBodies, hasFile, dOk, upOk \in BOOLEAN :
          UpdateResource(Direct, r, b, hasFile, dOk, upOk)
    \/ \E r \in ResourceIds : DeleteResource(Direct, r)
    \/ \E r \in ResourceIds : TrackDownload(Direct, r)
    \/ \E r \in ResourceIds, u \in {Nil, "u1"} : ToggleFavorite(Direct, r, u)
    \/ \E r \in ResourceIds, k \in 0..MaxBatch, nOk \in 0..MaxBatch :
          nOk <= k /\ AddFilesToResource(Direct, r, k, nOk)
    \/ \E r \in ResourceIds, f \in FileRefs, dOk \in BOOLEAN :
          RemoveFileFromResource(Direct, r, f, dOk)

SpecResource == InitResource /\ [][NextResource]_vars

\* C6: a resource goes nonexistent -> active -> inactive and no further: no
\* step of any operation (create, update, delete, attach, detach, favorite,
\* download, fetch, list) removes a resource, creates one inactive, or makes
\* an inactive resource active again
C6_InactiveIsTerminal ==
    [][\A r \in ResourceIds :
          /\ resources[r].exists => resources'[r].exists
          /\ (~resources[r].exists /\ resources'[r].exists) => resources'[r].isActive
          /\ (resources[r].exists /\ ~resources[r].isActive) => ~resources'[r].isActive]_vars

\* C6's case: a write operation went through on a soft-deleted resource, and
\* the resource is still inactive
C6_Witness ==
    /\ resp.op \in {"updateResource", "deleteResource", "addFilesToResource", "trackDownload"}
    /\ resp.status = 200
    /\ resp.preExists /\ ~resp.preActive
    /\ resources[resp.target].exists /\ ~resources[resp.target].isActive

ById == {"trackDownload", "updateResource", "deleteResource", "toggleFavorite",
         "addFilesToResource", "removeFileFromResource", "updateFolder", "deleteFolder",
         "updateDepartment", "deleteDepartment"}

\* C8: an operation addressed by id to an entity that is absent or inactive
\* answers 404 and leaves the whole store as it was (a request refused as
\* malformed, 400, or at the gate is left aside)
C8_AbsentOrInactiveIs404 ==
    (/\ resp.op \in ById
     /\ resp.status \notin {0, 400, 401, 403}
     /\ ~resp.preExists \/ ~resp.preActive)
        => (resp.status = 404 /\ ~resp.changed)

(***************************************************************************)
(* SpecRoutes: requests through the resource and folder routers, sent by   *)
(* the accounts POST /users creates. The user router is the ungated one:   *)
(* behind the gated one no account but a visitor can come to exist.        *)
(***************************************************************************)
Creds == {NoToken, BadToken} \cup {Bearer(t) : t \in tokens}

InitRoutes == Init /\ cfg.userRoutes = "open" /\ cfg.departmentRoutes = "gated"

LinkBodies == {[type |-> "link", title |-> "t", department |-> "d1", folder |-> Nil,
                uploadedBy |-> u, url |-> "x", linkType |-> Nil] : u \in UserIds}

Retitle == [NoChange EXCEPT !.title = "t2"]

\* the later steps of createFolder and updateFolder are not listed: no
\* request gets past restrictTo("co-manager"), and reqs stays idle
NextRoutes ==
    \/ \E e \in Emails, role \in {"member", "comanager"} :
          CreateUser(Via(UserRoute("createUser"), NoToken), e, role)
    \/ \E e \in Emails, pwOk \in BOOLEAN : Login(e, pwOk)
    \/ \E c \in Creds : CreateFolderCheck(Via(FolderRoute("createFolder"), c), "s1", "A", "d1", Nil)
    \/ \E c \in Creds : UpdateFolderCheck(Via(FolderRoute("updateFolder"), c), "s1", "f1", "B")
    \/ \E c \in Creds : DeleteFolder(Via(FolderRoute("deleteFolder"), c), "f1", Nil)
    \/ \E c \in Creds, b \in LinkBodies :
          /\ Cardinality({r \in ResourceIds : resources[r].exists}) < MaxLive
          /\ CreateResource(Via(ResourceRoute("createResource"), c), b, FALSE, FALSE)
    \/ \E c \in Creds, r \in ResourceIds :
          UpdateResource(Via(ResourceRoute("updateResource"), c), r, Retitle, FALSE, FALSE, FALSE)
    \/ \E c \in Creds, r \in ResourceIds : DeleteResource(Via(ResourceRoute("deleteResource"), c), r)
    \/ \E c \in Creds, r \in ResourceIds, nOk \in 0..1 :
          AddFilesToResource(Via(ResourceRoute("addFilesToResource"), c), r, 1, nOk)
    \/ \E c \in Creds, r \in ResourceIds, k \in 1..MaxObjects :
          RemoveFileFromResource(Via(ResourceRoute("removeFileFromResource"), c), r,
                                 [by |-> "_id", k |-> k], TRUE)

SpecRoutes == InitRoutes /\ [][NextRoutes]_vars

Mutations == {"updateResource", "deleteResource", "addFilesToResource", "removeFileFromResource",
              "updateFolder", "deleteFolder"}

\* C1: a mutating request on an existing active resource or folder, sent by
\* an authenticated member who is not its creator (uploadedBy / createdBy),
\* is answered 403 and changes nothing
C1_NonCreatorMemberDenied ==
    (/\ resp.op \in Mutations
     /\ resp.auth = "ok" /\ resp.role = "member"
     /\ resp.preExists /\ resp.preActive
     /\ resp.preOwner # resp.actor)
        => (resp.status = 403 /\ ~resp.changed)

\* the role at the top of the User schema's enum, and the gates' name for it
CoManager == {"comanager", "co-manager"}

\* C2: a mutating request on an existing active resource or folder gets past
\* the authorization gate (is answered neither 401 nor 403) when its sender
\* is the member who created the target, or has the co-manager role
C2_CreatorOrCoManagerPasses ==
    (/\ resp.op \in Mutations
     /\ resp.auth = "ok"
     /\ resp.preExists /\ resp.preActive
     /\ \/ resp.role = "member" /\ resp.preOwner = resp.actor
        \/ resp.role \in CoManager)
        => resp.status \notin {401, 403}

(***************************************************************************)
(* SpecGate: the middleware chain of every route (protect, restrictTo,     *)
(* errorHandler) as a function of the accounts, the token presented and    *)
(* the route. Init draws the accounts and an issued token: a token may name *)
(* an account that is no longer in the collection, or carry a role the      *)
(* account had when it was issued.                                          *)
(***************************************************************************)
Accounts ==
    [UserIds -> {NoUser} \cup
                {[exists |-> TRUE, isActive |-> TRUE, role |-> r, email |-> "a@x"] : r \in StoredRoles}]

InitGate ==
    /\ cfg \in Configs /\ cfg.resourceCtl = "try"
    /\ users \in Accounts
    /\ tokens \in {{}} \cup {{t} : t \in [id : UserIds, role : StoredRoles]}
    /\ departments = [d \in DeptIds |-> NoDepartment]
    /\ folders = [f \in FolderIds |-> NoFolder]
    /\ resources = [r \in ResourceIds |-> NoResource]
    /\ cloud = {}
    /\ nextObj = 0
    /\ reqs = [s \in Slots |-> IdleReq]
    /\ resp = NoResp

Routes ==
    [router : {"resource"},
     op : {"getResources", "getResourceStats", "getResourceById", "trackDownload",
           "createResource", "updateResource", "deleteResource", "adminDeleteResource",
           "addFilesToResource", "removeFileFromResource", "toggleFavorite"}]
    \cup
    [router : {"folder"},
     op : {"getFolders", "getFoldersByDepartment", "getFolder", "getFolderResources",
           "createFolder", "updateFolder", "deleteFolder", "getFolderStats"}]
    \cup
    [router : {"department"},
     op : {"getDepartments", "getDepartment", "getDepartmentStats", "createDepartment",
           "updateDepartment", "deleteDepartment"}]
    \cup
    [router : {"user"},
     op : {"createUser", "getUsers", "updateUser", "updatePassword", "deleteUser",
           "getUserStats", "getUser", "getUserResources"}]

RouteChain(router, op) ==
    CASE router = "resource" -> ResourceRoute(op)
      [] router = "folder" -> FolderRoute(op)
      [] router = "department" -> DepartmentRoute(op)
      [] router = "user" -> UserRoute(op)

\* a request on route rt with credential c (about user uid, on the user
\* router): the chain answers, or hands the request to the controller
\* (status 0)
Gate(rt, c, uid) ==
    LET g == Via(RouteChain(rt.router, rt.op), c)
        g1 == IF rt.router = "user" /\ rt.op \in {"getUser", "getUserResources"} /\ uid # Nil
              THEN OwnOrCoManager(g, uid) ELSE g
    IN /\ resp' = [Answer(rt.op, g1.status, g1.ctx, Nil, NoUser, Nil, FALSE, {}, 0, FALSE)
                      EXCEPT !.key = <<rt.router>>]
       /\ UNCHANGED <<cfg, users, tokens, departments, folders, resources, cloud, nextObj, reqs>>

Inline == {"getUser", "getUserResources"}

NextGate ==
    \/ \E rt \in Routes, c \in Creds : rt.op \notin Inline /\ Gate(rt, c, Nil)
    \/ \E rt \in Routes, c \in Creds, uid \in UserIds : rt.op \in Inline /\ Gate(rt, c, uid)

SpecGate == InitGate /\ [][NextGate]_vars

\* C5: on a gated route a request without a token, with a token verifyToken
\* rejects or with a token whose user is not found is answered 401; a request
\* with a valid token whose role the route's restrictTo does not list is
\* answered 403; and 401 is given to no authenticated request, 403 to no
\* unauthenticated one
C5_DenialsDistinct ==
    (resp.op # "none" /\ resp.gated) =>
        /\ resp.auth \in {"none", "invalid", "orphan"} => resp.status = 401
        /\ (/\ resp.auth = "ok"
            /\ RouteChain(resp.key[1], resp.op).restrict
            /\ resp.role \notin RouteChain(resp.key[1], resp.op).allowed) => resp.status = 403
        /\ resp.status = 401 => resp.auth # "ok"
        /\ resp.status = 403 => resp.auth = "ok"

\* C5's case: a valid token of a member on a route for co-managers only
C5_Witness ==
    /\ resp.gated /\ resp.auth = "ok" /\ resp.role = "member"
    /\ resp.op = "deleteFolder" /\ resp.status = 403

(***************************************************************************)
(* SpecVisitor: the accounts are the ones register creates (visitors);     *)
(* they and anonymous clients send requests to the department, folder and  *)
(* resource routers.                                                       *)
(***************************************************************************)
DepartmentRequests(cs) ==
    \/ \E c \in cs, name \in DeptNames :
          CreateDepartment(Via(DepartmentRoute("createDepartment"), c), name)
    \/ \E c \in cs, p \in {Undef, "false"} :
          GetDepartments(Via(DepartmentRoute("getDepartments"), c), p)
    \/ \E c \in cs, d \in DeptIds : GetDepartment(Via(DepartmentRoute("getDepartment"), c), d)
    \/ \E c \in cs, d \in DeptIds :
          UpdateDepartment(Via(DepartmentRoute("updateDepartment"), c), d, "Y")
    \/ \E c \in cs, d \in DeptIds :
          DeleteDepartment(Via(DepartmentRoute("deleteDepartment"), c), d)

\* the later steps of createFolder and updateFolder are not listed: no
\* request gets past restrictTo("co-manager"), and reqs stays idle
FolderRequests(cs, fs) ==
    \/ \E c \in cs, d \in {"d1"} :
          CreateFolderCheck(Via(FolderRoute("createFolder"), c), "s1", "A", d, Nil)
    \/ \E c \in cs, f \in fs :
          UpdateFolderCheck(Via(FolderRoute("updateFolder"), c), "s1", f, "B")
    \/ \E c \in cs, f \in fs : DeleteFolder(Via(FolderRoute("deleteFolder"), c), f, Nil)
    \/ \E c \in cs, p \in {Undef, "false"} : GetFolders(Via(FolderRoute("getFolders"), c), p)
    \/ \E c \in cs, f \in fs : GetFolder(Via(FolderRoute("getFolder"), c), f)

ResourceRequests(cs, rs) ==
    \/ \E c \in cs, b \in LinkBodies :
          /\ Cardinality({r \in rs : resources[r].exists}) < MaxLive
          /\ CreateResource(Via(ResourceRoute("createResource"), c), b, FALSE, FALSE)
    \/ \E c \in cs, r \in rs :
          UpdateResource(Via(ResourceRoute("updateResource"), c), r, Retitle, FALSE, FALSE, FALSE)
    \/ \E c \in cs, r \in rs : DeleteResource(Via(ResourceRoute("deleteResource"), c), r)
    \/ \E c \in cs, r \in rs :
          AddFilesToResource(Via(ResourceRoute("addFilesToResource"), c), r, 1, 1)
    \/ \E c \in cs, r \in rs :
          RemoveFileFromResource(Via(ResourceRoute("removeFileFromResource"), c), r,
                                 [by |-> "_id", k |-> 1], TRUE)
    \/ \E c \in cs, r \in rs, u \in UserIds :
          ToggleFavorite(Via(ResourceRoute("toggleFavorite"), c), r, u)
    \/ \E c \in cs, p \in {Undef, "false"} : GetResources(Via(ResourceRoute("getResources"), c), p)
    \/ \E c \in cs, r \in rs : GetResourceById(Via(ResourceRoute("getResourceById"), c), r)
    \/ \E c \in cs, r \in rs : TrackDownload(Via(ResourceRoute("trackDownload"), c), r)

NextVisitor ==
    \/ \E e \in Emails : Register(e)
    \/ \E e \in Emails, pwOk \in BOOLEAN : Login(e, pwOk)
    \/ DepartmentRequests(Creds)
    \/ FolderRequests(Creds, {"f1"})
    \/ ResourceRequests(Creds, {"r1"})

SpecVisitor == Init /\ [][NextVisitor]_vars

Writes == {"createDepartment", "updateDepartment", "deleteDepartment",
           "createFolder", "updateFolder", "deleteFolder",
           "createResource", "updateResource", "deleteResource",
           "addFilesToResource", "removeFileFromResource"}

VisitorMay == {"toggleFavorite", "getResources", "getResourceById", "trackDownload",
               "getFolders", "getFolder", "getDepartments", "getDepartment"}

\* C3: a request with a valid visitor token is answered 403 on every create,
\* update and delete of a department, folder or resource, and changes
\* nothing; on favorites, browsing and download tracking it is not refused
C3_VisitorReadsOnly ==
    (resp.auth = "ok" /\ resp.role = "visitor") =>
        /\ resp.op \in Writes => (resp.status = 403 /\ ~resp.changed)
        /\ resp.op \in VisitorMay => resp.status \notin {401, 403}

(***************************************************************************)
(* SpecAnonymous: requests without a token, or with one verifyToken        *)
(* rejects, to every router.                                               *)
(***************************************************************************)
Anonymous == {NoToken, BadToken}

UserRequests(cs) ==
    \/ \E c \in cs, e \in Emails :
          CreateUser(Via(UserRoute("createUser"), c), e, Undef)
    \/ \E c \in cs : GetUsers(Via(UserRoute("getUsers"), c), Undef)
    \/ \E c \in cs, u \in UserIds : GetUser(Via(UserRoute("getUser"), c), u)
    \/ \E c \in cs, u \in UserIds :
          UpdateUser(Via(UserRoute("updateUser"), c), u, "visitor")
    \/ \E c \in cs, u \in UserIds : DeleteUser(Via(UserRoute("deleteUser"), c), u)

NextAnonymous ==
    \/ UserRequests(Anonymous)
    \/ DepartmentRequests(Anonymous)
    \/ FolderRequests(Anonymous, {"f1"})
    \/ ResourceRequests(Anonymous, {"r1"})

SpecAnonymous == Init /\ [][NextAnonymous]_vars

UserWrites == {"createUser", "updateUser", "deleteUser"}

\* C4: a request without a valid token creates, updates or soft-deletes no
\* user, department, folder or resource
C4_AnonymousWritesNothing ==
    (resp.auth \in {"none", "invalid", "orphan"} /\ resp.op \in Writes \cup UserWrites)
        => ~resp.changed

\* the documents a list operation answers with are all active
ListsActiveOnly ==
    /\ resp.op = "getUsers" => \A u \in resp.list : users[u].isActive
    /\ resp.op = "getDepartments" => \A d \in resp.list : departments[d].isActive
    /\ resp.op = "getFolders" => \A f \in resp.list : folders[f].isActive
    /\ resp.op = "getResources" => \A r \in resp.list : resources[r].isActive

\* the document a successful delete was addressed to is stored, inactive
DeletedIsKept ==
    /\ resp.op = "deleteUser" => (users[resp.target].exists /\ ~users[resp.target].isActive)
    /\ resp.op = "deleteDepartment" =>
          (departments[resp.target].exists /\ ~departments[resp.target].isActive)
    /\ resp.op = "deleteFolder" => (folders[resp.target].exists /\ ~folders[resp.target].isActive)
    /\ resp.op = "deleteResource" =>
          (resources[resp.target].exists /\ ~resources[resp.target].isActive)

\* C7: after a successful delete the record is still stored, with isActive
\* false; a list query without an isActive filter answers no inactive
\* record, and a get by id answers none either
C7_SoftDeletedIsHidden ==
    resp.status = 200 =>
        /\ DeletedIsKept
        /\ resp.key = <<Undef>> => ListsActiveOnly
        /\ resp.op \in {"getUser", "getDepartment", "getFolder", "getResourceById"} => resp.preActive

(***************************************************************************)
(* SpecFavorite: toggleFavorite as the two steps its awaits cut it into,   *)
(* Resource.findById and resource.save(), for requests in flight together. *)
(* save() sends what the handler changed on its copy: a push goes out as   *)
(* $push on the stored array, a splice or an assignment as $set of the     *)
(* whole array, under the condition that the document's version is the one *)
(* that was read. Every array write raises the version.                    *)
(***************************************************************************)
\* locals of a toggleFavorite between its findById and its save: the array it
\* read, and whether the version it read is still the stored one
IdleToggle == [pc |-> "idle", ctx |-> NoCtx, id |-> Nil, userId |-> Nil, favs |-> <<>>,
               stale |-> FALSE]

InitFavorite ==
    /\ cfg \in {c \in Configs : c.departmentRoutes = "gated" /\ c.userRoutes = "gated"}
    /\ users = [u \in UserIds |-> NoUser]
    /\ tokens = {}
    /\ departments = [d \in DeptIds |-> NoDepartment]
    /\ folders = [f \in FolderIds |-> NoFolder]
    /\ resources = [r \in ResourceIds |-> NoResource]
    /\ cloud = {}
    /\ nextObj = 0
    /\ reqs = [s \in Slots |-> IdleToggle]
    /\ resp = NoResp

\* toggleFavorite up to the return of findById
ToggleFavoriteFind(g, s, rid, userId) ==
    LET out == ToggleFavoriteOut(rid, userId)
        st == IF g.status # 0 THEN g.status ELSE out.st
    IN /\ reqs[s].pc = "idle"
       /\ UNCHANGED <<cfg, users, tokens, departments, folders, resources, cloud, nextObj>>
       /\ IF st # 200
          THEN /\ reqs' = reqs
               /\ resp' = Answer("toggleFavorite", st, g.ctx, rid, resources[rid],
                                 resources[rid].uploadedBy, FALSE, {}, 0, FALSE)
          ELSE /\ reqs' = [reqs EXCEPT ![s] = [pc |-> "save", ctx |-> g.ctx, id |-> rid,
                                               userId |-> userId,
                                               favs |-> resources[rid].favoritedBy,
                                               stale |-> FALSE]]
               /\ resp' = Answer("toggleFavorite", 0, g.ctx, rid, resources[rid],
                                 resources[rid].uploadedBy, FALSE, {}, 0, FALSE)

\* toggleFavorite from the splice or push on the copy to the response
ToggleFavoriteSave(s) ==
    LET q == reqs[s]
        r == resources[q.id]
        remove == IndexOf(q.favs, q.userId) # 0
        copy == Toggled(q.favs, q.userId)
        conflict == remove /\ q.stale
        written == IF remove THEN copy ELSE Append(r.favoritedBy, q.userId)
    IN /\ q.pc = "save"
       /\ UNCHANGED <<cfg, users, tokens, departments, folders, cloud, nextObj>>
       /\ resources' = IF conflict THEN resources
                       ELSE [resources EXCEPT ![q.id].favoritedBy = written]
       /\ reqs' = [t \in Slots |->
                     IF t = s THEN IdleToggle
                     ELSE IF ~conflict /\ reqs[t].pc = "save" /\ reqs[t].id = q.id
                          THEN [reqs[t] EXCEPT !.stale = TRUE]
                     ELSE reqs[t]]
       /\ resp' = [Answer("toggleFavorite", IF conflict THEN 500 ELSE 200, q.ctx, q.id, r,
                          r.uploadedBy, resources' # resources, {},
                          IF conflict THEN 0 ELSE Len(copy), ~conflict /\ ~remove)
                      EXCEPT !.key = <<q.userId>>]

NextFavorite ==
    \/ \E hasFile, upOk \in BOOLEAN :
          /\ Cardinality({r \in ResourceIds : resources[r].exists}) < MaxLive
          /\ CreateResource(Direct, [FileBody EXCEPT !.type = "link", !.url = "x"], hasFile, upOk)
    \/ \E r \in ResourceIds : DeleteResource(Direct, r)
    \/ \E s \in Slots, r \in ResourceIds, u \in UserIds \cup {Nil} :
          ToggleFavoriteFind(Direct, s, r, u)
    \/ \E s \in Slots : ToggleFavoriteSave(s)

SpecFavorite == InitFavorite /\ [][NextFavorite]_vars

\* C11: on every active resource and for every user, two toggleFavorite calls
\* in a row for that user bring favoritedBy back to the membership and the
\* length it had; the first call reports the flipped membership, the second
\* the original one
C11_ToggleTwiceRestores ==
    \A r \in ResourceIds, u \in UserIds :
        (resources[r].exists /\ resources[r].isActive) =>
            LET before == resources[r].favoritedBy
                once == Toggled(before, u)
                twice == Toggled(once, u)
            IN /\ (u \in SeqToSet(twice)) = (u \in SeqToSet(before))
               /\ Len(twice) = Len(before)
               /\ (u \in SeqToSet(once)) = (u \notin SeqToSet(before))
               /\ (IndexOf(before, u) = 0) = (u \notin SeqToSet(before))
               /\ (IndexOf(once, u) = 0) = (u \in SeqToSet(before))

\* C12: favoritedBy of every resource holds each user id at most once,
\* however toggleFavorite requests for one (resource, user) pair interleave
\* at findById and save
C12_NoDuplicateFavorites ==
    \A r \in ResourceIds :
        \A i, j \in 1..Len(resources[r].favoritedBy) :
            i # j => resources[r].favoritedBy[i] # resources[r].favoritedBy[j]

(***************************************************************************)
(* SpecCascade: deleteFolder as the steps its awaits cut it into, with     *)
(* resource requests running in between. The first step is findById and    *)
(* countDocuments (and the look-up of the target); the second updateMany,  *)
(* the $inc on the target, the save of the folder and the $inc on the      *)
(* department. One createFolder and one deleteFolder are in flight at a    *)
(* time; the resource requests run between their steps.                    *)
(***************************************************************************)
\* deleteFolder up to the count and the validation of the target: the 400 and
\* 404 answers leave from here
DeleteFolderCount(g, s, fid, moveTo) ==
    LET st == IF g.status # 0 THEN g.status ELSE DeleteFolderStatus(fid, moveTo)
        n == IF g.status # 0 \/ ~folders[fid].exists THEN 0
             ELSE Cardinality(ActiveResourcesIn(fid))
    IN /\ reqs[s].pc = "idle"
       /\ FolderStep("deleteFolder", IF st = 200 THEN 0 ELSE st, g.ctx, fid, <<moveTo>>,
                     folders, departments, resources,
                     IF st # 200 THEN reqs
                     ELSE [reqs EXCEPT ![s] = [IdleReq EXCEPT !.op = "deleteFolder", !.pc = "move",
                                                            !.ctx = g.ctx, !.id = fid,
                                                            !.moveTo = moveTo, !.n = n]],
                     {}, n)

\* deleteFolder from updateMany to the 200: the filter of updateMany is
\* evaluated now, the $inc adds the number counted before
DeleteFolderMove(s) ==
    LET r == reqs[s]
        moved == IF r.n > 0 THEN ActiveResourcesIn(r.id) ELSE {}
        fo1 == IF r.n > 0 THEN [folders EXCEPT ![r.moveTo].resourceCount = @ + r.n] ELSE folders
    IN /\ r.pc = "move"
       /\ departments[folders[r.id].department].folderCount > -MaxBelow
       /\ r.n > 0 => folders[r.moveTo].resourceCount + r.n <= MaxCount
       /\ FolderStep("deleteFolder", 200, r.ctx, r.id, <<r.moveTo, "moved">>,
                     [fo1 EXCEPT ![r.id].isActive = FALSE],
                     [departments EXCEPT ![folders[r.id].department].folderCount = @ - 1],
                     [x \in ResourceIds |->
                        IF x \in moved THEN [resources[x] EXCEPT !.folder = r.moveTo]
                        ELSE resources[x]],
                     [reqs EXCEPT ![s] = IdleReq], moved, r.n)

InitCascade ==
    /\ Init
    /\ cfg.departmentRoutes = "gated" /\ cfg.userRoutes = "gated" /\ cfg.resourceCtl = "try"

\* a link filed in folder f
LinkIn(f) == [FileBody EXCEPT !.type = "link", !.url = "x", !.folder = f]

NextCascade ==
    \/ CreateDepartment(Direct, "X")
    \/ \E name \in FolderNames : CreateFolderCheck(Direct, "s1", name, "d1", "u1")
    \/ CreateFolderInsert("s1")
    \/ CreateFolderCount("s1")
    \/ \E f \in FolderIds :
          /\ Cardinality({r \in ResourceIds : resources[r].exists}) < MaxLive
          /\ CreateResource(Direct, LinkIn(f), FALSE, TRUE)
    \/ \E r \in ResourceIds, f \in FolderIds :
          UpdateResource(Direct, r, [NoChange EXCEPT !.folder = f], FALSE, TRUE, TRUE)
    \/ \E r \in ResourceIds : DeleteResource(Direct, r)
    \/ \E f \in FolderIds, t \in FolderIds \cup {Nil} :
          DeleteFolderCount(Direct, "s2", f, t)
    \/ DeleteFolderMove("s2")

SpecCascade == InitCascade /\ [][NextCascade]_vars

\* C13: a deleteFolder that is given an active target and succeeds has moved
\* every resource it counted: the resources moved now reference the target,
\* and the target's resourceCount went up by exactly their number, whatever
\* resource requests ran between the steps of the deletion
C13_CascadeMovesWhatItCounts ==
    (resp.op = "deleteFolder" /\ resp.status = 200 /\ Len(resp.key) = 2 /\ resp.n > 0) =>
        /\ Cardinality(resp.list) = resp.n
        /\ \A r \in resp.list : resources[r].folder = resp.key[1]

\* C14: deleteFolder without a target on a folder that n > 0 active
\* resources reference answers 400 with n in the payload, and leaves the
\* folder, every resource, every folder counter and the department's
\* folderCount as they were
C14_NoTargetIsRejected ==
    [][\A f \in FolderIds :
          (/\ resp'.op = "deleteFolder" /\ resp'.target = f /\ resp'.key = <<Nil>>
           /\ folders[f].exists /\ ActiveResourcesIn(f) # {})
              => /\ resp'.status = 400
                 /\ resp'.n = Cardinality(ActiveResourcesIn(f))
                 /\ store' = store]_vars

\* C14's case: a deletion refused for the resources the folder holds, the
\* folder still active and still holding them
C14_Witness ==
    /\ resp.op = "deleteFolder" /\ resp.status = 400 /\ resp.key = <<Nil>>
    /\ resp.n > 0 /\ resp.n = Cardinality(ActiveResourcesIn(resp.target))
    /\ folders[resp.target].isActive

(***************************************************************************)
(* SpecDepartment: the department controller's handlers and the resource   *)
(* creates and soft deletes that decide deleteDepartment, one at a time.   *)
(***************************************************************************)
InitDepartment ==
    /\ Init
    /\ cfg.departmentRoutes = "gated" /\ cfg.userRoutes = "gated"

\* a link of department d
LinkOf(d) == [FileBody EXCEPT !.type = "link", !.url = "x", !.department = d]

NextDepartment ==
    \/ \E name \in DeptNames : CreateDepartment(Direct, name)
    \/ \E d \in DeptIds :
          /\ Cardinality({r \in ResourceIds : resources[r].exists}) < MaxLive
          /\ CreateResource(Direct, LinkOf(d), FALSE, TRUE)
    \/ \E r \in ResourceIds : DeleteResource(Direct, r)
    \/ \E d \in DeptIds : GetDepartment(Direct, d)
    \/ \E d \in DeptIds, name \in DeptNames \cup {Undef} : UpdateDepartment(Direct, d, name)
    \/ \E d \in DeptIds : DeleteDepartment(Direct, d)

SpecDepartment == InitDepartment /\ [][NextDepartment]_vars

\* C15: deleteDepartment on a department that at least one resource
\* references, active or not, answers 400 with the number of referencing
\* resources and changes nothing; it answers 200 and sets isActive to false
\* exactly when no resource references the department
C15_DepartmentGuard ==
    [][\A d \in DeptIds :
          (resp'.op = "deleteDepartment" /\ resp'.target = d /\ departments[d].exists) =>
              LET refs == {r \in ResourceIds : resources[r].exists /\ resources[r].department = d}
              IN IF refs # {}
                 THEN /\ resp'.status = 400
                      /\ resp'.n = Cardinality(refs)
                      /\ store' = store
                 ELSE /\ resp'.status = 200
                      /\ ~departments'[d].isActive]_vars

\* C15's case: a deletion refused for a department whose only resources are
\* soft-deleted, the department still active
C15_Witness ==
    /\ resp.op = "deleteDepartment" /\ resp.status = 400 /\ resp.n > 0
    /\ departments[resp.target].isActive
    /\ \A r \in ResourceIds :
          (resources[r].exists /\ resources[r].department = resp.target) => ~resources[r].isActive

(***************************************************************************)
(* SpecAttach: add-files and remove-file on the resources createResource   *)
(* makes and deleteResource soft-deletes. SpecRetype: updateResource with  *)
(* every body and file outcome on the same resources. Both run the two     *)
(* controllers, handlers called one at a time.                             *)
(***************************************************************************)
NextAttach ==
    \/ \E b \in {FileBody, [FileBody EXCEPT !.type = "link", !.url = "x"]} :
          /\ Cardinality({r \in ResourceIds : resources[r].exists}) < MaxLive
          /\ CreateResource(Direct, b, TRUE, TRUE)
    \/ \E r \in ResourceIds : DeleteResource(Direct, r)
    \/ \E r \in ResourceIds, k \in 0..MaxBatch, nOk \in 0..MaxBatch :
          nOk <= k /\ AddFilesToResource(Direct, r, k, nOk)
    \/ \E r \in ResourceIds, f \in FileRefs, dOk \in BOOLEAN :
          RemoveFileFromResource(Direct, r, f, dOk)

SpecAttach == InitResource /\ [][NextAttach]_vars

NextRetype ==
    \/ \E b \in {FileBody, [FileBody EXCEPT !.type = "link", !.url = "x"]} :
          /\ Cardinality({r \in ResourceIds : resources[r].exists}) < MaxLive
          /\ CreateResource(Direct, b, TRUE, TRUE)
    \/ \E r \in ResourceIds : DeleteResource(Direct, r)
    \/ \E r \in ResourceIds, b \in UpdateBodies, hasFile, dOk, upOk \in BOOLEAN :
          UpdateResource(Direct, r, b, hasFile, dOk, upOk)
    \/ \E r \in ResourceIds :
          UpdateResource(Direct, r, [NoChange EXCEPT !.linkType = "drive"], FALSE, TRUE, TRUE)

SpecRetype == InitResource /\ [][NextRetype]_vars

\* C16: an updateResource that brings a new file for an active file-type
\* resource, and whose destroy of the previous object fails while the upload
\* works, still answers 200, and the resource carries the new upload
C16_DestroyFailureIsNotFatal ==
    (/\ resp.op = "updateResource"
     /\ resp.preExists /\ resp.preActive
     /\ resp.key = <<"file", "destroyFails", "uploaded", Undef>>
     /\ resources[resp.target].type = "file")
        => /\ resp.status = 200
           /\ resources[resp.target].publicId = nextObj
           /\ nextObj \in cloud

\* C17: add-files on an active resource is all or nothing on resource.files.
\* With k >= 1 files sent, if one upload fails the request fails and files is
\* what it was; if all succeed the request answers 200 and files is the old
\* list followed by exactly the k new files
C17_AddFilesAllOrNothing ==
    [][\A r \in ResourceIds :
          (/\ resp'.op = "addFilesToResource" /\ resp'.target = r
           /\ resources[r].exists /\ resources[r].isActive
           /\ resp'.key[1] >= 1)
              => IF resp'.key[2] < resp'.key[1]
                 THEN /\ resp'.status \notin {0, 200}
                      /\ resources'[r].files = resources[r].files
                 ELSE /\ resp'.status = 200
                      /\ resources'[r].files =
                            resources[r].files \o [i \in 1..resp'.key[1] |-> nextObj + i]]_vars

\* C17's case: a batch of which some but not all uploads succeeded, refused
C17_Witness ==
    /\ resp.op = "addFilesToResource" /\ resp.status = 500
    /\ resp.preExists /\ resp.preActive
    /\ resp.key[2] >= 1 /\ resp.key[2] < resp.key[1]
    /\ nextObj \in cloud
    /\ nextObj \notin SeqToSet(resources[resp.target].files)

\* C18: remove-file with an id the file list does not hold answers 404 and
\* changes neither the list nor the object storage; a remove-file that
\* answers 200 took exactly the named sub-file out of the list and its object
\* out of the object storage
C18_DetachUnknownIs404 ==
    [][\A r \in ResourceIds :
          (resp'.op = "removeFileFromResource" /\ resp'.target = r) =>
              LET k == resp'.key[2]
                  old == resources[r].files
              IN /\ k \notin SeqToSet(old) =>
                     /\ resp'.status = 404
                     /\ resources'[r].files = old
                     /\ cloud' = cloud
                 /\ resp'.status = 200 =>
                     /\ k \in SeqToSet(old)
                     /\ SeqToSet(resources'[r].files) = SeqToSet(old) \ {k}
                     /\ Len(resources'[r].files) = Len(old) - 1
                     /\ cloud' = cloud \ {k}]_vars

\* C18's case: a second detach of a sub-file that was attached and detached
C18_Witness ==
    /\ resp.op = "removeFileFromResource" /\ resp.status = 404
    /\ resp.preExists /\ resp.preActive
    /\ resp.key[2] <= nextObj
    /\ resp.key[2] \notin cloud
    /\ resp.key[2] # resources[resp.target].publicId
    /\ resp.key[2] \notin SeqToSet(resources[resp.target].files)

\* C20: no step changes the type of an existing resource, and an
\* updateResource that sends a type field on an active resource (no file
\* with it) is answered 200
C20_TypeIsImmutable ==
    [][\A r \in ResourceIds :
          /\ resources[r].exists => resources'[r].type = resources[r].type
          /\ (/\ resp'.op = "updateResource" /\ resp'.target = r
              /\ resources[r].exists /\ resources[r].isActive
              /\ resp'.key[1] = "nofile" /\ resp'.key[4] # Undef)
                 => resp'.status = 200]_vars

\* C20's case: an update that asked for the other type went through and the
\* resource kept its type
C20_Witness ==
    /\ resp.op = "updateResource" /\ resp.status = 200
    /\ resp.key[4] \in ResourceTypes
    /\ resp.key[4] # resources[resp.target].type

(***************************************************************************)
(* SpecPromotion: accounts that register, log in and are promoted with     *)
(* PUT /users/:id, and their POST /resources through the resource router.  *)
(***************************************************************************)
InitPromotion ==
    /\ Init
    /\ cfg.resourceCtl = "try" /\ cfg.departmentRoutes = "gated"

NextPromotion ==
    \/ \E e \in Emails : Register(e)
    \/ \E e \in Emails, pwOk \in BOOLEAN : Login(e, pwOk)
    \/ \E c \in Creds, u \in UserIds, ro \in {"member", "visitor"} :
          UpdateUser(Via(UserRoute("updateUser"), c), u, ro)
    \/ \E c \in Creds, b \in LinkBodies :
          /\ Cardinality({r \in ResourceIds : resources[r].exists}) < MaxLive
          /\ CreateResource(Via(ResourceRoute("createResource"), c), b, FALSE, TRUE)

SpecPromotion == InitPromotion /\ [][NextPromotion]_vars

\* C19: the create of a link (url, department, no linkType) by an account
\* that registered is answered 403 while the account is a visitor; once the
\* account has been promoted to member it is answered 201 and the stored
\* resource has linkType "other"
C19_VisitorThenMember ==
    (resp.op = "createResource" /\ resp.auth = "ok") =>
        /\ users[resp.actor].role = "visitor" => (resp.status = 403 /\ ~resp.changed)
        /\ users[resp.actor].role = "member" =>
              /\ resp.status = 201
              /\ \E r \in ResourceIds : resources[r].exists /\ resources[r].linkType = "other"

(***************************************************************************)
(* SpecCounters: the views and downloads counters with requests in flight  *)
(* together. getResourceById (both controllers) and the asyncHandler       *)
(* trackDownload load the document, add one on their copy and save, which  *)
(* writes the new number; the try/catch trackDownload is one               *)
(* findByIdAndUpdate with $inc.                                            *)
(***************************************************************************)
\* a handler up to the return of findById: the 404, or the counter it read
CounterFind(op, s, rid, seen) ==
    LET r == resources[rid]
        st == IF ~r.exists \/ ~r.isActive THEN 404 ELSE 0
    IN /\ reqs[s].pc = "idle"
       /\ seen < MaxCount
       /\ UNCHANGED <<cfg, users, tokens, departments, folders, resources, cloud, nextObj>>
       /\ reqs' = IF st # 0 THEN reqs
                  ELSE [reqs EXCEPT ![s] = [IdleReq EXCEPT !.op = op, !.pc = "save",
                                                         !.id = rid, !.n = seen]]
       /\ resp' = Answer(op, st, NoCtx, rid, r, r.uploadedBy, FALSE, {}, 0, FALSE)

\* trackDownload of the asyncHandler controller up to findById
TrackDownloadFind(s, rid) ==
    /\ cfg.resourceCtl = "async"
    /\ CounterFind("trackDownload", s, rid, resources[rid].downloads)

\* resource.downloads += 1; await resource.save(): the number read, plus one
TrackDownloadSave(s) ==
    LET q == reqs[s]
    IN /\ q.pc = "save" /\ q.op = "trackDownload"
       /\ UNCHANGED <<cfg, users, tokens, departments, folders, cloud, nextObj>>
       /\ resources' = [resources EXCEPT ![q.id].downloads = q.n + 1]
       /\ reqs' = [reqs EXCEPT ![s] = IdleReq]
       /\ resp' = Answer("trackDownload", 200, NoCtx, q.id, resources[q.id],
                         resources[q.id].uploadedBy, resources' # resources, {}, q.n + 1, FALSE)

\* getResourceById up to findById
GetResourceByIdFind(s, rid) ==
    CounterFind("getResourceById", s, rid, resources[rid].views)

\* resource.views += 1; await resource.save()
GetResourceByIdSave(s) ==
    LET q == reqs[s]
    IN /\ q.pc = "save" /\ q.op = "getResourceById"
       /\ UNCHANGED <<cfg, users, tokens, departments, folders, cloud, nextObj>>
       /\ resources' = [resources EXCEPT ![q.id].views = q.n + 1]
       /\ reqs' = [reqs EXCEPT ![s] = IdleReq]
       /\ resp' = Answer("getResourceById", 200, NoCtx, q.id, resources[q.id],
                         resources[q.id].uploadedBy, resources' # resources, {q.id}, q.n + 1, FALSE)

NextCounters ==
    \/ \E b \in {[FileBody EXCEPT !.type = "link", !.url = "x"]} :
          /\ Cardinality({r \in ResourceIds : resources[r].exists}) < MaxLive
          /\ CreateResource(Direct, b, FALSE, TRUE)
    \/ \E r \in ResourceIds : DeleteResource(Direct, r)
    \/ \E r \in ResourceIds : cfg.resourceCtl = "try" /\ TrackDownload(Direct, r)
    \/ \E s \in Slots, r \in ResourceIds : TrackDownloadFind(s, r)
    \/ \E s \in Slots : TrackDownloadSave(s)
    \/ \E s \in Slots, r \in ResourceIds : GetResourceByIdFind(s, r)
    \/ \E s \in Slots : GetResourceByIdSave(s)
    \/ \E p \in {Undef, "false"} : GetResources(Direct, p)

SpecCounters == InitResource /\ [][NextCounters]_vars

\* C21: every trackDownload that reports success raised the stored downloads
\* counter of its resource by exactly one, and no step lowers a downloads
\* counter: k successful requests leave it k higher, however they interleave
C21_NoDownloadIsLost ==
    [][\A r \in ResourceIds :
          /\ resources[r].exists => resources'[r].downloads >= resources[r].downloads
          /\ (resp'.op = "trackDownload" /\ resp'.status = 200 /\ resp'.target = r)
                => resources'[r].downloads = resources[r].downloads + 1]_vars

\* C22: every getResourceById that reports success raised the stored views
\* counter of its resource by exactly one, however the requests interleave,
\* and a getResources step changes no views counter
C22_NoViewIsLost ==
    [][\A r \in ResourceIds :
          /\ (resp'.op = "getResourceById" /\ resp'.status = 200 /\ resp'.target = r)
                => resources'[r].views = resources[r].views + 1
          /\ resp'.op = "getResources" => resources'[r].views = resources[r].views]_vars

\* C23: in every state a resource that has a linkType is of type link:
\* neither createResource nor updateResource stores a linkType on a file
C23_LinkTypeOnlyOnLinks ==
    \A r \in ResourceIds :
        (resources[r].exists /\ resources[r].linkType # Nil) => resources[r].type = "link"

(***************************************************************************)
(* SpecStats: the statistics handlers of the four scopes, over resources   *)
(* that createResource makes and deleteResource soft-deletes. Each handler *)
(* is a $match followed by a $group; totalResources is reported as n,      *)
(* totalFiles and totalLinks as the key of the response.                   *)
(***************************************************************************)
\* the $group stage over the matched resources rs, answered for target
StatsStep(op, target, found, rs) ==
    /\ UNCHANGED <<cfg, users, tokens, departments, folders, resources, cloud, nextObj, reqs>>
    /\ resp' = [Answer(op, IF found THEN 200 ELSE 404, NoCtx, target, NoResource, Nil, FALSE,
                       IF found THEN rs ELSE {},
                       IF found THEN Cardinality(rs) ELSE 0, FALSE)
                   EXCEPT !.key = IF found
                                  THEN <<Cardinality({r \in rs : resources[r].type = "file"}),
                                         Cardinality({r \in rs : resources[r].type = "link"})>>
                                  ELSE <<0, 0>>]

\* $match: { department: id }
GetDepartmentStats(did) ==
    StatsStep("getDepartmentStats", did, departments[did].exists,
              {r \in ResourceIds : resources[r].exists /\ resources[r].department = did})

\* $match: { folder: id, isActive: true }
GetFolderStats(fid) ==
    StatsStep("getFolderStats", fid, folders[fid].exists,
              {r \in ResourceIds : resources[r].exists /\ resources[r].isActive
                                   /\ resources[r].folder = fid})

\* $match: { uploadedBy: id, isActive: true }
GetUserStats(uid) ==
    StatsStep("getUserStats", uid, users[uid].exists,
              {r \in ResourceIds : resources[r].exists /\ resources[r].isActive
                                   /\ resources[r].uploadedBy = uid})

\* $match: { isActive: true }
GetResourceStats ==
    StatsStep("getResourceStats", Nil, TRUE,
              {r \in ResourceIds : resources[r].exists /\ resources[r].isActive})

NextStats ==
    \/ CreateDepartment(Direct, "X")
    \/ Register("a@x")
    \/ CreateFolderCheck(Direct, "s1", "A", "d1", "u1")
    \/ CreateFolderInsert("s1")
    \/ CreateFolderCount("s1")
    \/ \E b \in {[FileBody EXCEPT !.folder = "f1"],
                 [FileBody EXCEPT !.type = "link", !.url = "x", !.folder = "f1"]} :
          /\ Cardinality({r \in ResourceIds : resources[r].exists}) < MaxLive
          /\ CreateResource(Direct, b, TRUE, TRUE)
    \/ \E r \in ResourceIds : DeleteResource(Direct, r)
    \/ \E d \in DeptIds : GetDepartmentStats(d)
    \/ \E f \in FolderIds : GetFolderStats(f)
    \/ \E u \in UserIds : GetUserStats(u)
    \/ GetResourceStats

SpecStats == InitResource /\ [][NextStats]_vars

StatsOps == {"getDepartmentStats", "getFolderStats", "getUserStats", "getResourceStats"}

\* the active resources of the scope a statistics response is about
ActiveInScope ==
    {r \in ResourceIds :
        /\ resources[r].exists /\ resources[r].isActive
        /\ CASE resp.op = "getDepartmentStats" -> resources[r].department = resp.target
             [] resp.op = "getFolderStats" -> resources[r].folder = resp.target
             [] resp.op = "getUserStats" -> resources[r].uploadedBy = resp.target
             [] OTHER -> TRUE}

\* C24: a statistics response of any scope counts exactly the active
\* resources of the scope: totalResources is their number, totalFiles and
\* totalLinks the numbers of files and links among them, and totalFiles +
\* totalLinks = totalResources
C24_StatsCountActiveOnly ==
    (resp.op \in StatsOps /\ resp.status = 200) =>
        /\ resp.n = Cardinality(ActiveInScope)
        /\ resp.key[1] = Cardinality({r \in ActiveInScope : resources[r].type = "file"})
        /\ resp.key[2] = Cardinality({r \in ActiveInScope : resources[r].type = "link"})
        /\ resp.key[1] + resp.key[2] = resp.n

\* C25: a createResource request whose token names an existing account is
\* refused with 403 exactly when the role carried in the token is outside
\* the roles of the route, whatever role updateUser has stored for the
\* account since the token was issued
C25_TokenRoleDecides ==
    [][\A c \in Creds, b \in LinkBodies :
          (/\ c.kind = "token" /\ users[c.id].exists
           /\ CreateResource(Via(ResourceRoute("createResource"), c), b, FALSE, TRUE))
          => /\ resp'.status = 403 <=> c.role \notin {"member", "co-manager"}
             /\ resp'.status \notin {401, 403} <=> c.role \in {"member", "co-manager"}]_vars

\* a visitor's token is refused after its account was promoted to member
C25_Witness ==
    /\ resp.op = "createResource" /\ resp.auth = "ok" /\ resp.status = 403
    /\ users[resp.actor].role = "member"

\* the last value of the User schema's role enum
TopRole == "comanager"

\* C26: an account stored with the highest role of the User schema, presenting
\* the token login issued for that role, is let through every gate that is
\* for the co-manager role only (the folder mutations)
C26_TopRolePassesCoManagerGates ==
    (/\ resp.op \in {"createFolder", "updateFolder", "deleteFolder"}
     /\ resp.auth = "ok"
     /\ users[resp.actor].role = TopRole
     /\ resp.role = users[resp.actor].role)
        => resp.status \notin {401, 403}

\* C27: whenever no createFolder or updateFolder request is between two of
\* its steps, the folderCount of every department is the number of active
\* folders of the department, and is not negative
C27_FolderCountIsActiveFolders ==
    (\A s \in Slots : reqs[s].pc = "idle") =>
        \A d \in DeptIds :
            departments[d].exists =>
                /\ departments[d].folderCount
                      = Cardinality({f \in FolderIds : /\ folders[f].exists /\ folders[f].isActive
                                                       /\ folders[f].department = d})
                /\ departments[d].folderCount >= 0

\* C28: when deleteFolder(f) has answered 200, with a target or without,
\* no active resource references f, and every resource it moved is in a
\* folder that is active
C28_DeletedFolderHoldsNothing ==
    (resp.op = "deleteFolder" /\ resp.status = 200) =>
        /\ ActiveResourcesIn(resp.target) = {}
        /\ \A r \in resp.list :
              folders[resources[r].folder].exists /\ folders[resources[r].folder].isActive

(***************************************************************************)
(* SpecDeleted: accounts register and log in, deleteUser soft-deletes      *)
(* them, and requests with the tokens issued so far go through the         *)
(* middleware chain of every route.                                        *)
(***************************************************************************)
NextDeleted ==
    \/ \E e \in Emails : Register(e)
    \/ \E e \in Emails, pwOk \in BOOLEAN : Login(e, pwOk)
    \/ \E c \in Creds, u \in UserIds : DeleteUser(Via(UserRoute("deleteUser"), c), u)
    \/ \E rt \in Routes, c \in Creds : rt.op \notin Inline /\ Gate(rt, c, Nil)

SpecDeleted == InitPromotion /\ [][NextDeleted]_vars

\* C29: once deleteUser has set an account's isActive to false, a login for
\* the account is not answered 200, and a request on a route behind protect
\* that presents a token of the account is answered 401
C29_DeletedAccountCannotAct ==
    [][/\ \A e \in Emails, pwOk \in BOOLEAN :
             (/\ EmailTaken(e) /\ ~users[UserByEmail(e)].isActive
              /\ Login(e, pwOk)) => resp'.status # 200
       /\ (/\ resp'.gated /\ resp'.actor # Nil
           /\ users[resp'.actor].exists /\ ~users[resp'.actor].isActive)
             => resp'.status = 401]_vars

(***************************************************************************)
(* SpecActor: registered accounts send toggleFavorite through its route,   *)
(* one request at a time, with any user id in the body.                    *)
(***************************************************************************)
NextActor ==
    \/ \E e \in Emails : Register(e)
    \/ /\ Cardinality({r \in ResourceIds : resources[r].exists}) < MaxLive
       /\ CreateResource(Direct, [FileBody EXCEPT !.type = "link", !.url = "x"], FALSE, TRUE)
    \/ \E c \in Creds, r \in ResourceIds, u \in UserIds \cup {Nil} :
          ToggleFavoriteFind(Via(ResourceRoute("toggleFavorite"), c), "s1", r, u)
    \/ ToggleFavoriteSave("s1")

SpecActor == InitFavorite /\ [][NextActor]_vars

\* C30: a step of a toggleFavorite request sent by an authenticated actor
\* leaves every other user's membership in favoritedBy of every resource as
\* it was
C30_OnlyTheActorsFavorite ==
    [][(resp'.op = "toggleFavorite" /\ resp'.auth = "ok") =>
          \A r \in ResourceIds : \A u \in UserIds \ {resp'.actor} :
              (u \in SeqToSet(resources'[r].favoritedBy))
                 = (u \in SeqToSet(resources[r].favoritedBy))]_vars

====
